---- MODULE Spec2Model ----
(***************************************************************************)
(* A model of cookie-rs' Cookie (src/src/lib.rs): Cookie::new,             *)
(* Cookie::parse with its helpers split and attr_split, and the Display    *)
(* implementation (to_string).                                             *)
(*                                                                         *)
(* A string is a sequence of one-character strings.  Option<T> is a        *)
(* sequence of length 0 (None) or 1 (Some).  The BTreeMap `custom` is the  *)
(* sequence of its <<key, value>> entries in ascending key order.          *)
(***************************************************************************)
EXTENDS Integers, Sequences, FiniteSets

VARIABLES origin, input, arg, pc, pairs, c, out, back

vars == <<origin, input, arg, pc, pairs, c, out, back>>

-----------------------------------------------------------------------------
(* Characters: the ASCII characters the model draws on, in ascending code  *)
(* order, so that the index orders them as their bytes do; the tab (code   *)
(* 9) comes first.                                                         *)

Alphabet ==
  <<"\t", " ", "!", "#", "$", "%", "&", "'", "+", ",", "-", ".", "/",
    "0", "1", "2", "3", "4", "5", "6", "7", "8", "9", ":", ";", "<", "=", ">", "?",
    "@", "A", "B", "C", "D", "E", "F", "G", "H", "I", "J", "K", "L", "M", "N", "O",
    "P", "Q", "R", "S", "T", "U", "V", "W", "X", "Y", "Z", "[", "]", "^", "_",
    "a", "b", "c", "d", "e", "f", "g", "h", "i", "j", "k", "l", "m", "n", "o",
    "p", "q", "r", "s", "t", "u", "v", "w", "x", "y", "z", "{", "|", "}", "~">>

Chars == {Alphabet[i] : i \in 1..Len(Alphabet)}

(* The rank of a character in code order. *)
CodeOf == [ch \in Chars |-> CHOOSE i \in 1..Len(Alphabet) : Alphabet[i] = ch]

None == << >>
Some(x) == <<x>>

-----------------------------------------------------------------------------
(* The string operations of the standard library that parse and fmt use.   *)

is_whitespace(ch) == ch \in {" ", "\t"}

is_ascii_uppercase(ch) == CodeOf[ch] >= CodeOf["A"] /\ CodeOf[ch] <= CodeOf["Z"]

is_ascii_digit(ch) == CodeOf[ch] >= CodeOf["0"] /\ CodeOf[ch] <= CodeOf["9"]

(* 'A'..'Z' map to 'a'..'z'; every other character is left alone. *)
LowerOf ==
  [ch \in Chars |->
     IF is_ascii_uppercase(ch)
     THEN Alphabet[CodeOf["a"] + (CodeOf[ch] - CodeOf["A"])]
     ELSE ch]

to_ascii_lowercase(s) == [i \in 1..Len(s) |-> LowerOf[s[i]]]

RECURSIVE trim_left(_)
trim_left(s) ==
  IF s # << >> /\ is_whitespace(Head(s)) THEN trim_left(Tail(s)) ELSE s

RECURSIVE trim_right(_)
trim_right(s) ==
  IF s # << >> /\ is_whitespace(s[Len(s)])
  THEN trim_right(SubSeq(s, 1, Len(s) - 1))
  ELSE s

trim(s) == trim_right(trim_left(s))

(* str::find of a one-character pattern: the first index, or 0. *)
find(s, ch) ==
  IF \E i \in 1..Len(s) : s[i] = ch
  THEN CHOOSE i \in 1..Len(s) : s[i] = ch /\ \A j \in 1..(i - 1) : s[j] # ch
  ELSE 0

(* str::split(ch): every piece, empty ones included; never empty. *)
RECURSIVE str_split(_, _)
str_split(s, ch) ==
  LET pos == find(s, ch) IN
  IF pos = 0 THEN <<s>>
  ELSE <<SubSeq(s, 1, pos - 1)>> \o str_split(SubSeq(s, pos + 1, Len(s)), ch)

(* str::splitn(2, ch): at most two pieces, cut at the first ch. *)
splitn2(s, ch) ==
  LET pos == find(s, ch) IN
  IF pos = 0 THEN <<s>>
  ELSE <<SubSeq(s, 1, pos - 1), SubSeq(s, pos + 1, Len(s))>>

(* Byte-wise string order, the order of BTreeMap<String, _>. *)
RECURSIVE str_lt(_, _)
str_lt(a, b) ==
  IF b = << >> THEN FALSE
  ELSE IF a = << >> THEN TRUE
  ELSE IF Head(a) = Head(b) THEN str_lt(Tail(a), Tail(b))
  ELSE CodeOf[Head(a)] < CodeOf[Head(b)]

-----------------------------------------------------------------------------
(* str::parse::<i64>.  A number is held as its decimal digits without      *)
(* leading zeros (<<"0">> for zero), so that the 64-bit limits are exact.  *)

I64_MAX == <<"9","2","2","3","3","7","2","0","3","6","8","5","4","7","7","5","8","0","7">>
I64_MIN_MAGNITUDE == <<"9","2","2","3","3","7","2","0","3","6","8","5","4","7","7","5","8","0","8">>

Zero == <<"0">>

RECURSIVE strip_zeros(_)
strip_zeros(d) ==
  IF Len(d) > 1 /\ Head(d) = "0" THEN strip_zeros(Tail(d)) ELSE d

(* a <= b for two numbers in that form *)
dec_le(a, b) ==
  \/ Len(a) < Len(b)
  \/ Len(a) = Len(b) /\ ~str_lt(b, a)

(* The digit loop: result = result * 10 (+ or -) digit, checked at each    *)
(* step against the limit of the sign; None on a non-digit or overflow.    *)
RECURSIVE accumulate(_, _, _)
accumulate(result, digits, limit) ==
  IF digits = << >> THEN Some(result)
  ELSE IF ~is_ascii_digit(Head(digits)) THEN None
  ELSE LET next == strip_zeros(result \o <<Head(digits)>>) IN
       IF dec_le(next, limit) THEN accumulate(next, Tail(digits), limit) ELSE None

(* Some([negative, magnitude]) or None *)
parse_i64(src) ==
  IF src = << >> THEN None
  ELSE LET signed == Head(src) \in {"+", "-"}
           is_positive == Head(src) # "-"
           digits == IF signed THEN Tail(src) ELSE src
           r == accumulate(Zero, digits, IF is_positive THEN I64_MAX ELSE I64_MIN_MAGNITUDE)
       IN IF digits = << >> \/ r = None THEN None
          ELSE Some([negative |-> ~is_positive /\ r[1] # Zero, magnitude |-> r[1]])

-----------------------------------------------------------------------------
(* time::Tm, time::strptime and Tm::rfc822, as Cookie::parse and fmt call  *)
(* them.  tm_year counts from 1900, tm_mon and tm_wday from 0.             *)

WeekdaysAbbr ==
  << <<"S","u","n">>, <<"M","o","n">>, <<"T","u","e">>, <<"W","e","d">>,
     <<"T","h","u">>, <<"F","r","i">>, <<"S","a","t">> >>

WeekdaysFull ==
  << <<"S","u","n","d","a","y">>, <<"M","o","n","d","a","y">>,
     <<"T","u","e","s","d","a","y">>, <<"W","e","d","n","e","s","d","a","y">>,
     <<"T","h","u","r","s","d","a","y">>, <<"F","r","i","d","a","y">>,
     <<"S","a","t","u","r","d","a","y">> >>

MonthsAbbr ==
  << <<"J","a","n">>, <<"F","e","b">>, <<"M","a","r">>, <<"A","p","r">>,
     <<"M","a","y">>, <<"J","u","n">>, <<"J","u","l">>, <<"A","u","g">>,
     <<"S","e","p">>, <<"O","c","t">>, <<"N","o","v">>, <<"D","e","c">> >>

EmptyTm ==
  [tm_sec |-> 0, tm_min |-> 0, tm_hour |-> 0, tm_mday |-> 0, tm_mon |-> 0,
   tm_year |-> 0, tm_wday |-> 0, tm_yday |-> 0, tm_isdst |-> 0, tm_utcoff |-> 0,
   tm_nsec |-> 0]

starts_with(s, p) == Len(s) >= Len(p) /\ SubSeq(s, 1, Len(p)) = p

drop(s, n) == SubSeq(s, n + 1, Len(s))

DigitValue(ch) == CodeOf[ch] - CodeOf["0"]

RECURSIVE digits_value(_)
digits_value(d) ==
  IF d = << >> THEN 0
  ELSE 10 * digits_value(SubSeq(d, 1, Len(d) - 1)) + DigitValue(d[Len(d)])

Fail == [ok |-> FALSE]

(* exactly n digits with a value in lo..hi *)
match_digits_in_range(s, n, lo, hi) ==
  IF Len(s) >= n /\ \A i \in 1..n : is_ascii_digit(s[i])
  THEN LET v == digits_value(SubSeq(s, 1, n)) IN
       IF v >= lo /\ v <= hi THEN [ok |-> TRUE, v |-> v, rest |-> drop(s, n)] ELSE Fail
  ELSE Fail

(* the first of the names that the text starts with, as its index - 1 *)
match_strs(s, names) ==
  IF \E i \in 1..Len(names) : starts_with(s, names[i])
  THEN LET i == CHOOSE i \in 1..Len(names) :
                  /\ starts_with(s, names[i])
                  /\ \A j \in 1..(i - 1) : ~starts_with(s, names[j])
       IN [ok |-> TRUE, v |-> i - 1, rest |-> drop(s, Len(names[i]))]
  ELSE Fail

(* the zone name is skipped: up to and including the next space *)
skip_zone(s) ==
  LET sp == find(s, " ") IN IF sp = 0 THEN << >> ELSE drop(s, sp)

(* One conversion specification of a format, applied to the text left. *)
parse_type(s, ch, tm) ==
  LET set(r, f, v) ==
        IF r.ok THEN [ok |-> TRUE, rest |-> r.rest, tm |-> [tm EXCEPT ![f] = v]]
        ELSE Fail
  IN CASE ch = "a" -> LET r == match_strs(s, WeekdaysAbbr) IN
                      set(r, "tm_wday", IF r.ok THEN r.v ELSE 0)
       [] ch = "A" -> LET r == match_strs(s, WeekdaysFull) IN
                      set(r, "tm_wday", IF r.ok THEN r.v ELSE 0)
       [] ch = "b" -> LET r == match_strs(s, MonthsAbbr) IN
                      set(r, "tm_mon", IF r.ok THEN r.v ELSE 0)
       [] ch = "d" -> LET r == match_digits_in_range(s, 2, 1, 31) IN
                      set(r, "tm_mday", IF r.ok THEN r.v ELSE 0)
       [] ch = "H" -> LET r == match_digits_in_range(s, 2, 0, 23) IN
                      set(r, "tm_hour", IF r.ok THEN r.v ELSE 0)
       [] ch = "M" -> LET r == match_digits_in_range(s, 2, 0, 59) IN
                      set(r, "tm_min", IF r.ok THEN r.v ELSE 0)
       [] ch = "S" -> LET r == match_digits_in_range(s, 2, 0, 60) IN
                      set(r, "tm_sec", IF r.ok THEN r.v ELSE 0)
       [] ch = "Y" -> LET r == match_digits_in_range(s, 4, 0, 9999) IN
                      set(r, "tm_year", IF r.ok THEN r.v - 1900 ELSE 0)
       [] ch = "y" -> LET r == match_digits_in_range(s, 2, 0, 99) IN
                      set(r, "tm_year", IF r.ok THEN r.v ELSE 0)
       [] ch = "Z" -> IF starts_with(s, <<"U","T","C">>) \/ starts_with(s, <<"G","M","T">>)
                      THEN [ok |-> TRUE, rest |-> drop(s, 3), tm |-> [tm EXCEPT !.tm_utcoff = 0]]
                      ELSE [ok |-> TRUE, rest |-> skip_zone(s), tm |-> tm]
       [] OTHER -> Fail

RECURSIVE strptime_loop(_, _, _)
strptime_loop(s, format, tm) ==
  IF format = << >> THEN (IF s = << >> THEN Some(tm) ELSE None)
  ELSE IF Head(format) = "%"
  THEN LET r == parse_type(s, format[2], tm) IN
       IF r.ok THEN strptime_loop(r.rest, drop(format, 2), r.tm) ELSE None
  ELSE IF s # << >> /\ Head(s) = Head(format)
  THEN strptime_loop(Tail(s), Tail(format), tm)
  ELSE None

(* Some(Tm) or None *)
strptime(s, format) == strptime_loop(s, format, EmptyTm)

two_digits(n) == <<Alphabet[CodeOf["0"] + (n \div 10)], Alphabet[CodeOf["0"] + (n % 10)]>>

RECURSIVE display_nat(_)
display_nat(n) ==
  IF n < 10 THEN <<Alphabet[CodeOf["0"] + n]>>
  ELSE display_nat(n \div 10) \o <<Alphabet[CodeOf["0"] + (n % 10)]>>

display_int(n) == IF n < 0 THEN <<"-">> \o display_nat(0 - n) ELSE display_nat(n)

(* "%a, %d %b %Y %T" and the zone of a time at offset 0 *)
rfc822(tm) ==
  WeekdaysAbbr[tm.tm_wday + 1] \o <<",", " ">> \o two_digits(tm.tm_mday) \o <<" ">>
  \o MonthsAbbr[tm.tm_mon + 1] \o <<" ">> \o display_int(tm.tm_year + 1900)
  \o <<" ">> \o two_digits(tm.tm_hour) \o <<":">> \o two_digits(tm.tm_min)
  \o <<":">> \o two_digits(tm.tm_sec) \o <<" ", "G", "M", "T">>

-----------------------------------------------------------------------------
(* Cookie                                                                  *)

new(name, value) ==
  [name |-> name, value |-> value, expires |-> None, max_age |-> None,
   domain |-> None, path |-> None, secure |-> FALSE, httponly |-> FALSE,
   custom |-> << >>]

(* BTreeMap::insert on the key-ordered entry list: an equal key has its    *)
(* value replaced, a new key goes to its place in the order.               *)
RECURSIVE insert(_, _, _)
insert(m, k, v) ==
  IF m = << >> THEN << <<k, v>> >>
  ELSE IF Head(m)[1] = k THEN << <<k, v>> >> \o Tail(m)
  ELSE IF str_lt(k, Head(m)[1]) THEN << <<k, v>> >> \o m
  ELSE <<Head(m)>> \o insert(Tail(m), k, v)

(* split cutting at the last '=' instead of the first *)
split_at_last_equals(s) ==
  LET t == trim(s)
      last == IF \E i \in 1..Len(t) : t[i] = "="
              THEN CHOOSE i \in 1..Len(t) : t[i] = "=" /\ \A j \in (i + 1)..Len(t) : t[j] # "="
              ELSE 0
  IN IF last = 0 THEN None
     ELSE Some(<<trim(SubSeq(t, 1, last - 1)), trim(SubSeq(t, last + 1, Len(t)))>>)

(* split: Some(<<name, value>>), both trimmed, or None (the Err) *)
split(s) ==
  LET parts == splitn2(trim(s), "=") IN
  IF Len(parts) < 2 THEN None
  ELSE Some(<<trim(parts[1]), trim(parts[2])>>)

(* attr_split: <<key, Some(value)>> or <<key, None>>, trimmed *)
attr_split(s) ==
  LET pos == find(s, "=") IN
  IF pos > 0
  THEN <<trim(SubSeq(s, 1, pos - 1)), Some(trim(SubSeq(s, pos + 1, Len(s))))>>
  ELSE <<trim(s), None>>

S_secure == <<"s","e","c","u","r","e">>
S_httponly == <<"h","t","t","p","o","n","l","y">>
S_max_age == <<"m","a","x","-","a","g","e">>
S_domain == <<"d","o","m","a","i","n">>
S_path == <<"p","a","t","h">>
S_expires == <<"e","x","p","i","r","e","s">>

(* "%a, %d %b %Y %H:%M:%S %Z" *)
FormatRfc1123 ==
  <<"%","a",",", " ", "%","d", " ", "%","b", " ", "%","Y", " ",
    "%","H", ":", "%","M", ":", "%","S", " ", "%","Z">>
(* "%A, %d-%b-%y %H:%M:%S %Z" *)
FormatRfc850 ==
  <<"%","A",",", " ", "%","d", "-", "%","b", "-", "%","y", " ",
    "%","H", ":", "%","M", ":", "%","S", " ", "%","Z">>
(* "%a, %d-%b-%Y %H:%M:%S %Z" *)
FormatHyphenY ==
  <<"%","a",",", " ", "%","d", "-", "%","b", "-", "%","Y", " ",
    "%","H", ":", "%","M", ":", "%","S", " ", "%","Z">>
(* "%a %b %d %H:%M:%S %Y" *)
FormatAsctime ==
  <<"%","a", " ", "%","b", " ", "%","d", " ",
    "%","H", ":", "%","M", ":", "%","S", " ", "%","Y">>

(* the or_else chain: the first of the four formats that parses *)
parse_expires(v) ==
  LET t1 == strptime(v, FormatRfc1123)
      t2 == strptime(v, FormatRfc850)
      t3 == strptime(v, FormatHyphenY)
      t4 == strptime(v, FormatAsctime)
  IN IF t1 # None THEN t1 ELSE IF t2 # None THEN t2 ELSE IF t3 # None THEN t3 ELSE t4

(* the match with the two flags taken only from a segment without value *)
arm_of_flag_without_value(k, v) ==
  LET lk == to_ascii_lowercase(k) IN
  IF lk = S_secure /\ v = None THEN "secure"
  ELSE IF lk = S_httponly /\ v = None THEN "httponly"
  ELSE IF lk = S_max_age /\ v # None THEN "max-age"
  ELSE IF lk = S_domain /\ v # None THEN "domain"
  ELSE IF lk = S_path /\ v # None THEN "path"
  ELSE IF lk = S_expires /\ v # None THEN "expires"
  ELSE IF v # None THEN "custom"
  ELSE "ignored"

(* the match on the key as written, without to_ascii_lowercase *)
arm_of_case_sensitive(k, v) ==
  IF k = S_secure THEN "secure"
  ELSE IF k = S_httponly THEN "httponly"
  ELSE IF k = S_max_age /\ v # None THEN "max-age"
  ELSE IF k = S_domain /\ v # None THEN "domain"
  ELSE IF k = S_path /\ v # None THEN "path"
  ELSE IF k = S_expires /\ v # None THEN "expires"
  ELSE IF v # None THEN "custom"
  ELSE "ignored"

(* The arms of the match on (lower-cased key, value), first match wins. *)
arm_of(k, v) ==
  LET lk == to_ascii_lowercase(k) IN
  IF lk = S_secure THEN "secure"
  ELSE IF lk = S_httponly THEN "httponly"
  ELSE IF lk = S_max_age /\ v # None THEN "max-age"
  ELSE IF lk = S_domain /\ v # None THEN "domain"
  ELSE IF lk = S_path /\ v # None THEN "path"
  ELSE IF lk = S_expires /\ v # None THEN "expires"
  ELSE IF v # None THEN "custom"
  ELSE "ignored"

secure_arm(ck) == [ck EXCEPT !.secure = TRUE]

httponly_arm(ck) == [ck EXCEPT !.httponly = TRUE]

(* the max-age arm without the clamp of negative values *)
max_age_arm_unclamped(ck, v) ==
  LET max_age == parse_i64(v) IN
  IF max_age = None THEN ck
  ELSE [ck EXCEPT !.max_age =
          Some(IF max_age[1].negative THEN <<"-">> \o max_age[1].magnitude
               ELSE max_age[1].magnitude)]

max_age_arm(ck, v) ==
  LET max_age == parse_i64(v) IN
  IF max_age = None THEN ck
  ELSE [ck EXCEPT !.max_age =
          Some(IF max_age[1].negative THEN Zero ELSE max_age[1].magnitude)]

(* the domain arm without to_ascii_lowercase *)
domain_arm_no_lowercase(ck, v) ==
  IF v = << >> THEN ck
  ELSE LET domain == IF Head(v) = "." THEN Tail(v) ELSE v IN
       [ck EXCEPT !.domain = Some(domain)]

domain_arm(ck, v) ==
  IF v = << >> THEN ck
  ELSE LET domain == IF Head(v) = "." THEN Tail(v) ELSE v IN
       [ck EXCEPT !.domain = Some(to_ascii_lowercase(domain))]

path_arm(ck, v) == [ck EXCEPT !.path = Some(v)]

(* the expires arm storing the failure too: a date that does not parse    *)
(* unsets the field                                                        *)
expires_arm_clearing(ck, v) == [ck EXCEPT !.expires = parse_expires(v)]

expires_arm(ck, v) ==
  LET tm == parse_expires(v) IN
  IF tm = None THEN ck ELSE [ck EXCEPT !.expires = Some(tm[1])]

custom_arm(ck, k, v) == [ck EXCEPT !.custom = insert(ck.custom, k, v)]

(* One turn of the loop over the attribute segments. *)
apply_attr(ck, attr) ==
  LET kv == attr_split(attr)
      k == kv[1]
      v == kv[2]
      arm == arm_of(k, v)
  IN CASE arm = "secure" -> secure_arm(ck)
       [] arm = "httponly" -> httponly_arm(ck)
       [] arm = "max-age" -> max_age_arm(ck, v[1])
       [] arm = "domain" -> domain_arm(ck, v[1])
       [] arm = "path" -> path_arm(ck, v[1])
       [] arm = "expires" -> expires_arm(ck, v[1])
       [] arm = "custom" -> custom_arm(ck, k, v[1])
       [] OTHER -> ck

RECURSIVE fold_attrs(_, _)
fold_attrs(ck, attrs) ==
  IF attrs = << >> THEN ck
  ELSE fold_attrs(apply_attr(ck, Head(attrs)), Tail(attrs))

(* the first segment without the check for an empty name *)
parse_keyval_unchecked_name(keyval) ==
  LET nv == split(keyval) IN
  IF nv = None THEN None ELSE Some(new(nv[1][1], nv[1][2]))

(* The first segment: Some(cookie with name and value) or None (Err). *)
parse_keyval(keyval) ==
  LET nv == split(keyval) IN
  IF nv = None THEN None
  ELSE IF nv[1][1] = << >> THEN None
  ELSE Some(new(nv[1][1], nv[1][2]))

(* Cookie::parse: Some(cookie) for Ok, None for Err. *)
parse(s) ==
  LET segments == str_split(trim(s), ";")
      first == parse_keyval(Head(segments))
  IN IF first = None THEN None
     ELSE Some(fold_attrs(first[1], Tail(segments)))

(* the pair written value first *)
attr_val_swapped(attr, val) == val \o <<"=">> \o attr

(* AttrVal's Display: "{}={}" *)
attr_val(attr, val) == attr \o <<"=">> \o val

(* the custom entries written as bare keys *)
RECURSIVE fmt_custom_keys_only(_)
fmt_custom_keys_only(m) ==
  IF m = << >> THEN << >>
  ELSE <<";", " ">> \o Head(m)[1] \o fmt_custom_keys_only(Tail(m))

RECURSIVE fmt_custom(_)
fmt_custom(m) ==
  IF m = << >> THEN << >>
  ELSE <<";", " ">> \o attr_val(Head(m)[1], Head(m)[2]) \o fmt_custom(Tail(m))

(* to_string with Secure written before HttpOnly *)
fmt_secure_first(ck) ==
  attr_val(ck.name, ck.value)
  \o (IF ck.secure THEN <<";"," ","S","e","c","u","r","e">> ELSE << >>)
  \o (IF ck.httponly THEN <<";"," ","H","t","t","p","O","n","l","y">> ELSE << >>)
  \o (IF ck.path # None THEN <<";"," ","P","a","t","h","=">> \o ck.path[1] ELSE << >>)
  \o (IF ck.domain # None
      THEN <<";"," ","D","o","m","a","i","n","=">> \o ck.domain[1] ELSE << >>)
  \o (IF ck.max_age # None
      THEN <<";"," ","M","a","x","-","A","g","e","=">> \o ck.max_age[1] ELSE << >>)
  \o (IF ck.expires # None
      THEN <<";"," ","E","x","p","i","r","e","s","=">> \o rfc822(ck.expires[1])
      ELSE << >>)
  \o fmt_custom(ck.custom)

(* Cookie's Display, that is to_string *)
fmt(ck) ==
  attr_val(ck.name, ck.value)
  \o (IF ck.httponly THEN <<";"," ","H","t","t","p","O","n","l","y">> ELSE << >>)
  \o (IF ck.secure THEN <<";"," ","S","e","c","u","r","e">> ELSE << >>)
  \o (IF ck.path # None THEN <<";"," ","P","a","t","h","=">> \o ck.path[1] ELSE << >>)
  \o (IF ck.domain # None
      THEN <<";"," ","D","o","m","a","i","n","=">> \o ck.domain[1] ELSE << >>)
  \o (IF ck.max_age # None
      THEN <<";"," ","M","a","x","-","A","g","e","=">> \o ck.max_age[1] ELSE << >>)
  \o (IF ck.expires # None
      THEN <<";"," ","E","x","p","i","r","e","s","=">> \o rfc822(ck.expires[1])
      ELSE << >>)
  \o fmt_custom(ck.custom)

-----------------------------------------------------------------------------
(* The inputs.                                                             *)

MaxHead == 3      \* longest first segment drawn character by character
MaxAttrs == 2     \* most attribute segments after a typical first segment
MaxField == 2     \* longest name and value handed to Cookie::new

HeadChars == {" ", "=", "a"}

StringsUpTo(S, n) == UNION {[1..k -> S] : k \in 0..n}

(* Attribute segments, as they stand between two ';'.  Those that are      *)
(* combined with each other:                                               *)
(*   "Secure"                                                     *)
(*   " SECURE=aaaa"                                               *)
(*   "HttpOnly"                                                   *)
(*   "sekure"                                                     *)
(*   "Max-Age=4"                                                  *)
(*   " Max-Age = -1 "                                             *)
(*   "max-age=x"                                                  *)
(*   "Domain="                                                    *)
(*   "Domain=.FOO.com"                                            *)
(*   "Domain=..c"                                                 *)
(*   "Path=/foo"                                                  *)
(*   "path="                                                      *)
(*   "Path"                                                       *)
(*   "wut=lol"                                                    *)
(*   "Wut=x=y"                                                    *)
(*   " wut = z"                                                   *)
(*   "Expires=Sun, 23 Nov 2014 20:00:00 UTC"                      *)
(*   "expires=Sunday, 06-Nov-94 08:49:37 GMT"                     *)
(*   "Expires=tomorrow"                                           *)
CoreSamples ==
  { <<"S","e","c","u","r","e">>,
    <<" ","S","E","C","U","R","E","=","a","a","a","a">>,
    <<"H","t","t","p","O","n","l","y">>,
    <<"s","e","k","u","r","e">>,
    <<"M","a","x","-","A","g","e","=","4">>,
    <<" ","M","a","x","-","A","g","e"," ","="," ","-","1"," ">>,
    <<"m","a","x","-","a","g","e","=","x">>,
    <<"D","o","m","a","i","n","=">>,
    <<"D","o","m","a","i","n","=",".","F","O","O",".","c","o","m">>,
    <<"D","o","m","a","i","n","=",".",".","c">>,
    <<"P","a","t","h","=","/","f","o","o">>,
    <<"p","a","t","h","=">>,
    <<"P","a","t","h">>,
    <<"w","u","t","=","l","o","l">>,
    <<"W","u","t","=","x","=","y">>,
    <<" ","w","u","t"," ","="," ","z">>,
    <<"E","x","p","i","r","e","s","=","S","u","n",","," ","2","3"," ","N","o","v"," ","2","0","1","4"," ","2","0",":","0","0",":","0","0"," ","U","T","C">>,
    <<"e","x","p","i","r","e","s","=","S","u","n","d","a","y",","," ","0","6","-","N","o","v","-","9","4"," ","0","8",":","4","9",":","3","7"," ","G","M","T">>,
    <<"E","x","p","i","r","e","s","=","t","o","m","o","r","r","o","w">> }

(* and those that are met alone:                                           *)
(*   ""                                                           *)
(*   " httponly="                                                 *)
(*   "Max-Age"                                                    *)
(*   "Max-Age="                                                   *)
(*   "max-age=+007"                                               *)
(*   "Max-Age=9223372036854775807"                                *)
(*   "Max-Age=9223372036854775808"                                *)
(*   "Max-Age=-9223372036854775809"                               *)
(*   " domain = a.b "                                             *)
(*   "Domain=. d"                                                 *)
(*   "Domain=."                                                   *)
(*   "=v"                                                         *)
(*   "Expires=Sun, 06-Nov-1994 08:49:37 GMT"                      *)
(*   "Expires=Sun Nov 06 08:49:37 1994"                           *)
(*   "Expires"                                                    *)
AttrSamples ==
  { << >>,
    <<" ","h","t","t","p","o","n","l","y","=">>,
    <<"M","a","x","-","A","g","e">>,
    <<"M","a","x","-","A","g","e","=">>,
    <<"m","a","x","-","a","g","e","=","+","0","0","7">>,
    <<"M","a","x","-","A","g","e","=","9","2","2","3","3","7","2","0","3","6","8","5","4","7","7","5","8","0","7">>,
    <<"M","a","x","-","A","g","e","=","9","2","2","3","3","7","2","0","3","6","8","5","4","7","7","5","8","0","8">>,
    <<"M","a","x","-","A","g","e","=","-","9","2","2","3","3","7","2","0","3","6","8","5","4","7","7","5","8","0","9">>,
    <<" ","d","o","m","a","i","n"," ","="," ","a",".","b"," ">>,
    <<"D","o","m","a","i","n","=","."," ","d">>,
    <<"D","o","m","a","i","n","=",".">>,
    <<"=","v">>,
    <<"E","x","p","i","r","e","s","=","S","u","n",","," ","0","6","-","N","o","v","-","1","9","9","4"," ","0","8",":","4","9",":","3","7"," ","G","M","T">>,
    <<"E","x","p","i","r","e","s","=","S","u","n"," ","N","o","v"," ","0","6"," ","0","8",":","4","9",":","3","7"," ","1","9","9","4">>,
    <<"E","x","p","i","r","e","s">> } \cup CoreSamples

(* " Foo = b%2Fr=x " *)
TypicalHead == <<" ","F","o","o"," ","="," ","b","%","2","F","r","=","x"," ">>

RECURSIVE join(_, _)
join(head, attrs) ==
  IF attrs = << >> THEN head
  ELSE join(head \o <<";">> \o Head(attrs), Tail(attrs))

(* Every short first segment alone and before each attribute segment, and *)
(* the typical first segment before every short sequence of segments.     *)
Inputs ==
  {join(h, as) : h \in StringsUpTo(HeadChars, MaxHead), as \in StringsUpTo(AttrSamples, 1)}
  \cup {join(TypicalHead, as) : as \in StringsUpTo(CoreSamples, MaxAttrs)}

NoArg == [name |-> << >>, value |-> << >>]

Args == [name : StringsUpTo(HeadChars, MaxField), value : StringsUpTo(HeadChars, MaxField)]

-----------------------------------------------------------------------------
(* The state machine: one call of Cookie::parse on `input`, or one call of *)
(* Cookie::new on `arg`, then to_string on the Cookie and parse of the     *)
(* text it gave.                                                           *)

Init ==
  /\ \/ origin = "parse" /\ input \in Inputs /\ arg = NoArg
     \/ origin = "new" /\ input = << >> /\ arg \in Args
  /\ pc = "start"
  /\ pairs = << >>
  /\ c = new(<< >>, << >>)
  /\ out = << >>
  /\ back = None

(* Cookie::new(name, value) *)
New ==
  /\ origin = "new" /\ pc = "start"
  /\ c' = new(arg.name, arg.value)
  /\ pc' = "ok"
  /\ UNCHANGED <<origin, input, arg, pairs, out, back>>

segments_of(s) == str_split(trim(s), ";")

(* parse, first segment: split fails (no '='), return Err *)
ParseSplitErr ==
  /\ origin = "parse" /\ pc = "start"
  /\ split(Head(segments_of(input))) = None
  /\ pc' = "err"
  /\ pairs' = Tail(segments_of(input))
  /\ UNCHANGED <<origin, input, arg, c, out, back>>

(* parse, first segment: the name is empty, return Err *)
ParseEmptyName ==
  /\ origin = "parse" /\ pc = "start"
  /\ split(Head(segments_of(input))) # None
  /\ parse_keyval(Head(segments_of(input))) = None
  /\ pc' = "err"
  /\ pairs' = Tail(segments_of(input))
  /\ c' = [c EXCEPT !.name = split(Head(segments_of(input)))[1][1]]
  /\ UNCHANGED <<origin, input, arg, out, back>>

(* parse, first segment: name and value are stored *)
ParseNameValue ==
  /\ origin = "parse" /\ pc = "start"
  /\ parse_keyval(Head(segments_of(input))) # None
  /\ c' = parse_keyval(Head(segments_of(input)))[1]
  /\ pairs' = Tail(segments_of(input))
  /\ pc' = "attrs"
  /\ UNCHANGED <<origin, input, arg, out, back>>

(* The segment the loop is at, split into key and optional value. *)
attr_key == attr_split(Head(pairs))[1]
attr_value == attr_split(Head(pairs))[2]

(* The loop is at a segment that takes the arm `arm`. *)
AtArm(arm) ==
  /\ pc = "attrs" /\ pairs # << >>
  /\ arm_of(attr_key, attr_value) = arm

(* The loop moves on to the next segment. *)
Advance ==
  /\ pairs' = Tail(pairs)
  /\ UNCHANGED <<origin, input, arg, pc, out, back>>

(* ("secure", _) *)
AttrSecure ==
  /\ AtArm("secure")
  /\ c' = secure_arm(c)
  /\ Advance

(* ("httponly", _) *)
AttrHttpOnly ==
  /\ AtArm("httponly")
  /\ c' = httponly_arm(c)
  /\ Advance

(* ("max-age", Some(v)) *)
AttrMaxAge ==
  /\ AtArm("max-age")
  /\ c' = max_age_arm(c, attr_value[1])
  /\ Advance

(* ("domain", Some(v)) *)
AttrDomain ==
  /\ AtArm("domain")
  /\ c' = domain_arm(c, attr_value[1])
  /\ Advance

(* ("path", Some(v)) *)
AttrPath ==
  /\ AtArm("path")
  /\ c' = path_arm(c, attr_value[1])
  /\ Advance

(* ("expires", Some(v)) *)
AttrExpires ==
  /\ AtArm("expires")
  /\ c' = expires_arm(c, attr_value[1])
  /\ Advance

(* (_, Some(v)) *)
AttrCustom ==
  /\ AtArm("custom")
  /\ c' = custom_arm(c, attr_key, attr_value[1])
  /\ Advance

(* (_, _) *)
AttrIgnored ==
  /\ AtArm("ignored")
  /\ c' = c
  /\ Advance

(* return Ok(c) *)
ParseReturn ==
  /\ pc = "attrs" /\ pairs = << >>
  /\ pc' = "ok"
  /\ UNCHANGED <<origin, input, arg, pairs, c, out, back>>

(* c.to_string() *)
Format ==
  /\ pc = "ok"
  /\ out' = fmt(c)
  /\ pc' = "formatted"
  /\ UNCHANGED <<origin, input, arg, pairs, c, back>>

(* Cookie::parse(&out) *)
Reparse ==
  /\ pc = "formatted"
  /\ back' = parse(out)
  /\ pc' = "reparsed"
  /\ UNCHANGED <<origin, input, arg, pairs, c, out>>

Next ==
  \/ New
  \/ ParseSplitErr
  \/ ParseEmptyName
  \/ ParseNameValue
  \/ AttrSecure
  \/ AttrHttpOnly
  \/ AttrMaxAge
  \/ AttrDomain
  \/ AttrPath
  \/ AttrExpires
  \/ AttrCustom
  \/ AttrIgnored
  \/ ParseReturn
  \/ Format
  \/ Reparse

Spec == Init /\ [][Next]_vars

-----------------------------------------------------------------------------
(* Vocabulary of the properties: texts cut at a character, whole-string    *)
(* predicates, and the attribute segments of the input.                    *)

Contains(s, ch) == \E i \in 1..Len(s) : s[i] = ch

FirstIndex(s, ch) == CHOOSE i \in 1..Len(s) : s[i] = ch /\ \A j \in 1..(i - 1) : s[j] # ch

(* the text before the first ch, the whole text when there is none *)
Before(s, ch) == IF Contains(s, ch) THEN SubSeq(s, 1, FirstIndex(s, ch) - 1) ELSE s

(* the text after the first ch *)
After(s, ch) == SubSeq(s, FirstIndex(s, ch) + 1, Len(s))

HasUpper(s) == \E i \in 1..Len(s) : is_ascii_uppercase(s[i])

Trimmed(s) == s = << >> \/ (~is_whitespace(s[1]) /\ ~is_whitespace(s[Len(s)]))

Parsing == origin = "parse"

Returned == pc \in {"ok", "formatted", "reparsed"}

(* the first segment of the input, as the claims describe it *)
FirstSegment == Before(trim(input), ";")

MalformedFirst ==
  \/ ~Contains(FirstSegment, "=")
  \/ trim(Before(FirstSegment, "=")) = << >>

(* the attribute segments of the input, in order *)
AttrSegments == Tail(str_split(trim(input), ";"))

KeyText(seg) == trim(Before(seg, "="))

HasValue(seg) == Contains(seg, "=")

ValueText(seg) == trim(After(seg, "="))

KeyIs(seg, name) == to_ascii_lowercase(KeyText(seg)) = name

Reserved == {S_secure, S_httponly, S_max_age, S_domain, S_path, S_expires}

(* the loop of parse is at a segment *)
AtSegment == pc = "attrs" /\ pairs # << >>

(* the attribute segments the loop has been through *)
Consumed ==
  IF pc = "attrs" \/ Returned
  THEN SubSeq(AttrSegments, 1, Len(AttrSegments) - Len(pairs))
  ELSE << >>

(* the index in Consumed of the last segment that P holds of, 0 if none *)
LastWhere(P(_)) ==
  LET hits == {i \in 1..Len(Consumed) : P(Consumed[i])} IN
  IF hits = {} THEN 0 ELSE CHOOSE i \in hits : \A j \in hits : j <= i

(* the text of a signed 64-bit integer: an optional sign and digits whose  *)
(* value lies in -2^63 .. 2^63 - 1                                         *)
SignOf(v) == IF v # << >> /\ Head(v) \in {"+", "-"} THEN Head(v) ELSE ""

DigitsOf(v) == IF SignOf(v) = "" THEN v ELSE Tail(v)

IsI64Text(v) ==
  /\ DigitsOf(v) # << >>
  /\ \A i \in 1..Len(DigitsOf(v)) : is_ascii_digit(DigitsOf(v)[i])
  /\ dec_le(strip_zeros(DigitsOf(v)),
            IF SignOf(v) = "-" THEN I64_MIN_MAGNITUDE ELSE I64_MAX)

(* the max_age an integer text n stands for: 0 if n < 0, n itself if not *)
MaxAgeOf(v) ==
  IF SignOf(v) = "-" /\ strip_zeros(DigitsOf(v)) # Zero THEN Zero
  ELSE strip_zeros(DigitsOf(v))

(* the domain a non-empty Domain value stands for *)
DomainOf(v) == to_ascii_lowercase(IF Head(v) = "." THEN Tail(v) ELSE v)

(* the four date formats, in the order they are tried *)
Formats == <<FormatRfc1123, FormatRfc850, FormatHyphenY, FormatAsctime>>

IsDateText(v) == \E i \in 1..Len(Formats) : strptime(v, Formats[i]) # None

(* the time a date text stands for: that of the first format it matches *)
DateOf(v) ==
  LET i == CHOOSE i \in 1..Len(Formats) :
             /\ strptime(v, Formats[i]) # None
             /\ \A j \in 1..(i - 1) : strptime(v, Formats[j]) = None
  IN strptime(v, Formats[i])[1]

-----------------------------------------------------------------------------
(* C1: Cookie::parse returns Err exactly when the first segment of the     *)
(* trimmed input has no '=' or the trimmed text before its first '=' is    *)
(* empty; otherwise it gets past the first segment, never fails on an      *)
(* attribute segment, and returns Ok with a non-empty name.                *)
C1_ErrorExactlyOnFirstSegment ==
  Parsing =>
    /\ pc = "err" => MalformedFirst
    /\ pc = "attrs" \/ Returned => ~MalformedFirst /\ c.name # << >>
    /\ (parse(input) = None) <=> MalformedFirst

(* an Ok parse with an empty value whose only attribute segment was a      *)
(* Max-Age that is no number                                               *)
C1_Witness ==
  /\ Parsing /\ pc = "ok"
  /\ c.value = << >>
  /\ Len(AttrSegments) = 1
  /\ KeyIs(AttrSegments[1], S_max_age) /\ HasValue(AttrSegments[1])
  /\ c.max_age = None

(* C9: the name is the trimmed text before the first '=' of the first      *)
(* segment and the value the trimmed text after it up to the first ';':    *)
(* later '=' stay in the value, the name holds no '=', neither has outer   *)
(* whitespace, and nothing else is changed in them.                        *)
C9_SplitOnFirstEquals ==
  Parsing /\ Returned =>
    LET first == Before(input, ";") IN
    /\ c.name = trim(Before(first, "="))
    /\ c.value = trim(After(first, "="))
    /\ ~Contains(c.name, "=")
    /\ Trimmed(c.name) /\ Trimmed(c.value)

(* a parsed value that holds a '=' and a '%', under a name with a letter  *)
(* in upper case                                                           *)
C9_Witness ==
  /\ Parsing /\ pc = "ok"
  /\ Contains(c.value, "=") /\ Contains(c.value, "%") /\ HasUpper(c.name)

(* C3 as stated: for every non-empty name and every value without ';',     *)
(* parsing new(name, value).to_string() gives new(name, value) back, and   *)
(* formatting that again gives the same string.                            *)
C3_AsStated ==
  origin = "new" /\ pc = "reparsed" /\ arg.name # << >> =>
    /\ back = Some(new(arg.name, arg.value))
    /\ fmt(back[1]) = out

(* the names and values for which the round trip holds *)
C3_Canonical ==
  /\ arg.name # << >>
  /\ ~Contains(arg.name, "=")
  /\ Trimmed(arg.name) /\ Trimmed(arg.value)

(* C3, amended: the same, for a name without '=' and a name and a value    *)
(* without leading or trailing whitespace.                                 *)
C3_NameValueRoundTrip ==
  origin = "new" /\ pc = "reparsed" /\ C3_Canonical =>
    /\ back = Some(new(arg.name, arg.value))
    /\ fmt(back[1]) = out

(* the round trip of a value that holds a '=' *)
C3_Witness ==
  /\ origin = "new" /\ pc = "reparsed" /\ C3_Canonical
  /\ Contains(arg.value, "=")
  /\ back = Some(c)

(* C5, the turn of the loop: a Max-Age with a value that is the text of a    *)
(* signed 64-bit integer n stores Some(0) if n < 0 and Some(n) if not, and *)
(* changes nothing else; with any other value the Cookie is left as it was *)
(* and the parse goes on.                                                  *)
C5_MaxAgeTurn ==
  AtSegment /\ KeyIs(Head(pairs), S_max_age) /\ HasValue(Head(pairs)) =>
    LET v == ValueText(Head(pairs)) IN
    /\ pc' = "attrs"
    /\ c' = IF IsI64Text(v) THEN [c EXCEPT !.max_age = Some(MaxAgeOf(v))] ELSE c

(* C5, the field: max_age, when set, is a number from 0 to 2^63 - 1 *)
C5_MaxAgeRange ==
  c.max_age # None =>
    LET n == c.max_age[1] IN
    /\ n # << >> /\ \A i \in 1..Len(n) : is_ascii_digit(n[i])
    /\ strip_zeros(n) = n
    /\ dec_le(n, I64_MAX)

(* C5: Max-Age is read as a signed 64-bit integer, negative values are     *)
(* stored as 0, other values as they are, and a value that is no such      *)
(* integer (not a number, empty, out of range) is skipped without failing  *)
(* the parse; max_age is never negative and never above the i64 maximum.   *)
C5_MaxAgeClamped == [][C5_MaxAgeTurn]_vars /\ []C5_MaxAgeRange

(* a negative Max-Age was read and Some(0) is stored *)
C5_Witness ==
  /\ Parsing /\ pc = "ok"
  /\ c.max_age = Some(Zero)
  /\ \E i \in 1..Len(AttrSegments) :
       /\ KeyIs(AttrSegments[i], S_max_age) /\ HasValue(AttrSegments[i])
       /\ SignOf(ValueText(AttrSegments[i])) = "-"

(* C7, the turn of the loop *)
C7_FlagTurn ==
  AtSegment =>
    LET seg == Head(pairs) IN
    /\ KeyIs(seg, S_secure) => c' = [c EXCEPT !.secure = TRUE]
    /\ KeyIs(seg, S_httponly) => c' = [c EXCEPT !.httponly = TRUE]
    /\ ~HasValue(seg) /\ ~KeyIs(seg, S_secure) /\ ~KeyIs(seg, S_httponly) =>
         /\ c'.secure = c.secure /\ c'.httponly = c.httponly
         /\ pc' = "attrs"

(* C7: a segment whose trimmed key is `secure` (`httponly`) in any letter  *)
(* case sets that flag and nothing else, with no value, an empty value or  *)
(* any value; a key without value that is neither sets no flag and does    *)
(* not fail the parse.                                                     *)
C7_FlagsAnyCaseAnyValue == [][C7_FlagTurn]_vars

(* Secure was set by a segment in another letter case that carries a value *)
C7_Witness ==
  /\ Parsing /\ pc = "ok"
  /\ c.secure /\ ~c.httponly
  /\ \E i \in 1..Len(AttrSegments) :
       /\ KeyIs(AttrSegments[i], S_secure) /\ KeyText(AttrSegments[i]) # S_secure
       /\ HasValue(AttrSegments[i]) /\ ValueText(AttrSegments[i]) # << >>

(* C4 as stated: after a successful parse the domain is unset or a string  *)
(* with no ASCII upper-case letter that does not begin with '.'.           *)
C4_AsStated ==
  Parsing /\ Returned /\ c.domain # None =>
    /\ ~HasUpper(c.domain[1])
    /\ ~starts_with(c.domain[1], <<".">>)

(* the Domain segments gone through that carry a non-empty value *)
DomainValues ==
  {ValueText(Consumed[i]) : i \in {j \in 1..Len(Consumed) :
      /\ KeyIs(Consumed[j], S_domain) /\ HasValue(Consumed[j])
      /\ ValueText(Consumed[j]) # << >>}}

C4_DomainField ==
  Parsing /\ c.domain # None =>
    /\ ~HasUpper(c.domain[1])
    /\ \E v \in DomainValues : c.domain[1] = DomainOf(v)
    /\ starts_with(c.domain[1], <<".">>) =>
         \E v \in DomainValues : starts_with(v, <<".", ".">>)

C4_EmptyDomainTurn ==
  AtSegment /\ KeyIs(Head(pairs), S_domain) /\ HasValue(Head(pairs))
    /\ ValueText(Head(pairs)) = << >>
  => c'.domain = c.domain

(* C4, amended: the domain is unset or the trimmed value of a Domain       *)
(* attribute with one leading '.' removed and lower-cased: it holds no     *)
(* ASCII upper-case letter, and it begins with '.' only when that value    *)
(* began with '..'; a Domain whose trimmed value is empty never sets it.   *)
C4_DomainNormalised == []C4_DomainField /\ [][C4_EmptyDomainTurn]_vars

(* a domain that still begins with '.' after the parse *)
C4_Witness ==
  /\ Parsing /\ pc = "ok"
  /\ c.domain # None /\ starts_with(c.domain[1], <<".">>)

(* the custom attributes gone through: a value, and a key that is none of  *)
(* the six names in any letter case                                        *)
IsCustom(seg) == HasValue(seg) /\ to_ascii_lowercase(KeyText(seg)) \notin Reserved

CustomKeys == {c.custom[i][1] : i \in 1..Len(c.custom)}

(* C8: custom holds exactly the attributes with a value whose key is none  *)
(* of the six reserved names in any letter case, under the trimmed key as  *)
(* written and with the trimmed value (of the last segment of that key);   *)
(* no reserved name is ever a key of custom, and a key without value adds  *)
(* nothing.                                                                *)
C8_CustomExactly ==
  Parsing =>
    /\ CustomKeys = {KeyText(Consumed[i]) : i \in {j \in 1..Len(Consumed) : IsCustom(Consumed[j])}}
    /\ Cardinality(CustomKeys) = Len(c.custom)
    /\ \A i \in 1..Len(c.custom) :
         LET k == c.custom[i][1]
             IsK(seg) == IsCustom(seg) /\ KeyText(seg) = k
         IN /\ to_ascii_lowercase(k) \notin Reserved
            /\ c.custom[i][2] = ValueText(Consumed[LastWhere(IsK)])

(* two keys that differ only in letter case are two entries *)
C8_Witness ==
  /\ Parsing /\ pc = "ok"
  /\ Len(c.custom) = 2
  /\ to_ascii_lowercase(c.custom[1][1]) = to_ascii_lowercase(c.custom[2][1])

(* the segments that set a field, and the segments that are skipped *)
SetsMaxAge(seg) == KeyIs(seg, S_max_age) /\ HasValue(seg) /\ IsI64Text(ValueText(seg))

SetsDomain(seg) == KeyIs(seg, S_domain) /\ HasValue(seg) /\ ValueText(seg) # << >>

SetsPath(seg) == KeyIs(seg, S_path) /\ HasValue(seg)

SetsExpires(seg) == KeyIs(seg, S_expires) /\ HasValue(seg) /\ IsDateText(ValueText(seg))

Skipped(seg) ==
  \/ KeyIs(seg, S_max_age) /\ HasValue(seg) /\ ~IsI64Text(ValueText(seg))
  \/ KeyIs(seg, S_domain) /\ HasValue(seg) /\ ValueText(seg) = << >>
  \/ KeyIs(seg, S_expires) /\ HasValue(seg) /\ ~IsDateText(ValueText(seg))
  \/ ~HasValue(seg) /\ ~KeyIs(seg, S_secure) /\ ~KeyIs(seg, S_httponly)

(* C10, the turn of the loop: a skipped segment changes no field, and a    *)
(* flag that is set stays set                                              *)
C10_Turn ==
  /\ AtSegment /\ Skipped(Head(pairs)) => c' = c /\ pc' = "attrs"
  /\ c.secure => c'.secure
  /\ c.httponly => c'.httponly

(* C10, the fields: each holds the value of the last segment gone through  *)
(* that set it, and is unset when there was none                           *)
C10_LastAccepted ==
  Parsing =>
    /\ c.max_age = IF LastWhere(SetsMaxAge) = 0 THEN None
                   ELSE Some(MaxAgeOf(ValueText(Consumed[LastWhere(SetsMaxAge)])))
    /\ c.domain = IF LastWhere(SetsDomain) = 0 THEN None
                  ELSE Some(DomainOf(ValueText(Consumed[LastWhere(SetsDomain)])))
    /\ c.path = IF LastWhere(SetsPath) = 0 THEN None
                ELSE Some(ValueText(Consumed[LastWhere(SetsPath)]))
    /\ c.expires = IF LastWhere(SetsExpires) = 0 THEN None
                   ELSE Some(DateOf(ValueText(Consumed[LastWhere(SetsExpires)])))
    /\ \A i \in 1..Len(c.custom) :
         LET IsK(seg) == IsCustom(seg) /\ KeyText(seg) = c.custom[i][1] IN
         LastWhere(IsK) # 0 /\ c.custom[i][2] = ValueText(Consumed[LastWhere(IsK)])

(* C10: the segments are folded left to right; a Max-Age that is no        *)
(* integer, a Domain with an empty value, an Expires in none of the four   *)
(* formats and a key without value other than the two flags leave every    *)
(* field as it was, so each field ends with the value of the last segment  *)
(* accepted for it, and secure and httponly stay true once set.            *)
C10_SkipsAreNoOps == [][C10_Turn]_vars /\ []C10_LastAccepted

(* an accepted Max-Age followed by one that is no number: the first stays *)
C10_Witness ==
  /\ Parsing /\ pc = "ok"
  /\ Len(AttrSegments) = 2
  /\ SetsMaxAge(AttrSegments[1])
  /\ Skipped(AttrSegments[2]) /\ KeyIs(AttrSegments[2], S_max_age)
  /\ c.max_age # None

(* the attributes of the six fields that are set, in the fixed order *)
FixedPart(ck) ==
  LET pieces ==
        << IF ck.httponly THEN Some(<<" ","H","t","t","p","O","n","l","y">>) ELSE None,
           IF ck.secure THEN Some(<<" ","S","e","c","u","r","e">>) ELSE None,
           IF ck.path # None THEN Some(<<" ","P","a","t","h","=">> \o ck.path[1]) ELSE None,
           IF ck.domain # None
             THEN Some(<<" ","D","o","m","a","i","n","=">> \o ck.domain[1]) ELSE None,
           IF ck.max_age # None
             THEN Some(<<" ","M","a","x","-","A","g","e","=">> \o ck.max_age[1]) ELSE None,
           IF ck.expires # None
             THEN Some(<<" ","E","x","p","i","r","e","s","=">> \o rfc822(ck.expires[1]))
             ELSE None >>
      present(p) == p # None
      kept == SelectSeq(pieces, present)
  IN [i \in 1..Len(kept) |-> kept[i][1]]

(* C6: to_string gives name=value and then, each after "; " and only when  *)
(* set, HttpOnly, Secure, Path, Domain, Max-Age, Expires in that order,    *)
(* then every custom entry as key=value in ascending key order, whatever   *)
(* the order of the attributes in the input.                               *)
C6_FixedOrder ==
  pc \in {"formatted", "reparsed"} =>
    LET written == str_split(out, ";")
        fixed == FixedPart(c)
        n == Len(fixed)
    IN /\ Head(written) = c.name \o <<"=">> \o c.value
       /\ Len(written) = 1 + n + Len(c.custom)
       /\ \A i \in 1..n : written[1 + i] = fixed[i]
       /\ \A i \in 1..Len(c.custom) :
            written[1 + n + i] = <<" ">> \o c.custom[i][1] \o <<"=">> \o c.custom[i][2]
       /\ \A i \in 1..Len(c.custom) : \A j \in (i + 1)..Len(c.custom) :
            str_lt(c.custom[i][1], c.custom[j][1])

(* both flags written, HttpOnly first, from an input with Secure first *)
C6_Witness ==
  /\ Parsing /\ pc = "formatted"
  /\ Len(AttrSegments) = 2
  /\ KeyIs(AttrSegments[1], S_secure) /\ KeyIs(AttrSegments[2], S_httponly)
  /\ c.secure /\ c.httponly

C2_DomainStable ==
  \/ c.domain = None
  \/ /\ c.domain[1] # << >>
     /\ Head(c.domain[1]) # "."
     /\ ~is_whitespace(Head(c.domain[1]))

(* the times whose RFC 822 text reads back as the same time *)
C2_ExpiresStable ==
  \/ c.expires = None
  \/ /\ IsDateText(rfc822(c.expires[1]))
     /\ DateOf(rfc822(c.expires[1])) = c.expires[1]

====
